---- MODULE Spec2Model ----
(***************************************************************************)
(* Model of the NL2SQL engine (src/nl_to_sql.py): the NLToSQLEngine class  *)
(* with generate_sql_query, validate_sql_query, execute_query and the      *)
(* orchestration process_natural_language_query, run by several callers on *)
(* one shared engine.                                                      *)
(*                                                                         *)
(* A Python str is a sequence of one-character strings, so that lower(),   *)
(* strip(), startswith(), endswith(), slicing and the `in` test are        *)
(* computed on the characters.  The backquote character, which a TLA+      *)
(* string cannot hold, is written "<bq>".                                  *)
(***************************************************************************)
EXTENDS Integers, Sequences, FiniteSets, TLC

VARIABLES
    schema_info,     \* self.schema_info, built by __init__
    pc,              \* per call: position in process_natural_language_query
    user_query,      \* per call: the argument user_query
    sql_query,       \* per call: the local sql_query
    results_df,      \* per call: the local results_df
    error,           \* per call: the local error
    conn,            \* per call: the local conn of execute_query (0: unbound)
    conns,           \* the sqlite3 connection objects created so far
    outcome,         \* per call: the dict returned to the caller
    backend_failed,  \* per call: the except branch of generate_sql_query ran
    log,             \* per call: the stage methods invoked so far, in order
    v_sql,           \* argument of a direct call of validate_sql_query
    v_ret,           \* what that call returned
    g_response,      \* backend response of a direct call of generate_sql_query
    g_ret            \* what that call returned

vars == <<schema_info, pc, user_query, sql_query, results_df, error, conn,
          conns, outcome, backend_failed, log, v_sql, v_ret, g_response,
          g_ret>>

(***************************************************************************)
(* Bounds of the model.                                                    *)
(***************************************************************************)
\* number of concurrent calls of process_natural_language_query
NumCalls == 2
\* largest number of rows a result table holds
MaxRows == 1
\* number of text fragments appended to a head to build a validator input
MaxTail == 2

Calls == 1..NumCalls

(***************************************************************************)
(* Python str and its methods.                                             *)
(***************************************************************************)
Whitespace == {" ", "\t", "\n", "\r"}

UpperLetters == <<"A","B","C","D","E","F","G","H","I","J","K","L","M","N","O","P","Q","R","S","T","U","V","W","X","Y","Z">>

LowerLetters == <<"a","b","c","d","e","f","g","h","i","j","k","l","m","n","o","p","q","r","s","t","u","v","w","x","y","z">>

\* one character of str.lower()
lower_char(ch) ==
    IF \E i \in 1..Len(UpperLetters) : UpperLetters[i] = ch
    THEN LowerLetters[CHOOSE i \in 1..Len(UpperLetters) : UpperLetters[i] = ch]
    ELSE ch

\* str.lower()
lower(s) == [i \in 1..Len(s) |-> lower_char(s[i])]

SetMin(S) == CHOOSE x \in S : \A y \in S : x <= y

SetMax(S) == CHOOSE x \in S : \A y \in S : x >= y

\* str.strip(): drops the leading and the trailing whitespace
strip(s) ==
    LET keep == {i \in 1..Len(s) : s[i] \notin Whitespace}
    IN  IF keep = {} THEN <<>> ELSE SubSeq(s, SetMin(keep), SetMax(keep))

\* str.startswith(prefix)
startswith(s, prefix) ==
    Len(s) >= Len(prefix) /\ SubSeq(s, 1, Len(prefix)) = prefix

\* str.endswith(suffix)
endswith(s, suffix) ==
    Len(s) >= Len(suffix) /\ SubSeq(s, Len(s) - Len(suffix) + 1, Len(s)) = suffix

\* the test `sub in s` on two str
str_in(sub, s) ==
    \E i \in 1..(Len(s) - Len(sub) + 1) : SubSeq(s, i, i + Len(sub) - 1) = sub

\* the slice s[n:]
slice_from(s, n) == SubSeq(s, n + 1, Len(s))

\* the slice s[:-n]
slice_drop_last(s, n) == SubSeq(s, 1, Len(s) - n)

(***************************************************************************)
(* Python values: None, a str, a DataFrame.                                *)
(***************************************************************************)
None == [tag |-> "None"]

Str(s) == [tag |-> "str", s |-> s]

DataFrame(rows) == [tag |-> "DataFrame", rows |-> rows]

\* truth value of `error` in `if error:` (None and "" are false)
truthy(v) == v.tag = "str" /\ Len(v.s) > 0

(***************************************************************************)
(* validate_sql_query                                                      *)
(***************************************************************************)
kw_select == <<"s","e","l","e","c","t">>

MsgOnlySelect == <<"O","n","l","y"," ","S","E","L","E","C","T"," ","q","u","e","r","i","e","s"," ","a","r","e"," ","a","l","l","o","w","e","d">>

MsgForbidden == <<"Q","u","e","r","y"," ","c","o","n","t","a","i","n","s"," ","f","o","r","b","i","d","d","e","n"," ","k","e","y","w","o","r","d",":"," ">>

MsgValid == <<"Q","u","e","r","y"," ","i","s"," ","v","a","l","i","d">>

dangerous_keywords_no_alter ==
    << <<"d","r","o","p">>, <<"d","e","l","e","t","e">>, <<"i","n","s","e","r","t">>, <<"u","p","d","a","t","e">> >>

dangerous_keywords ==
    << <<"d","r","o","p">>, <<"d","e","l","e","t","e">>, <<"i","n","s","e","r","t">>, <<"u","p","d","a","t","e">>, <<"a","l","t","e","r">> >>

\* the loop `for keyword in dangerous_keywords`, from its i-th keyword on
RECURSIVE scan_keywords(_, _)
scan_keywords(query_lower, i) ==
    IF i > Len(dangerous_keywords)
    THEN <<TRUE, MsgValid>>
    ELSE IF str_in(dangerous_keywords[i], query_lower)
         THEN <<FALSE, MsgForbidden \o dangerous_keywords[i]>>
         ELSE scan_keywords(query_lower, i + 1)

\* the validator without its keyword loop
validate_prefix_only(sql) ==
    IF ~startswith(strip(lower(sql)), kw_select)
    THEN <<FALSE, MsgOnlySelect>>
    ELSE <<TRUE, MsgValid>>

validate_sql_query(sql) ==
    LET query_lower == strip(lower(sql))
    IN  IF ~startswith(query_lower, kw_select)
        THEN <<FALSE, MsgOnlySelect>>
        ELSE scan_keywords(query_lower, 1)

(***************************************************************************)
(* The database behind db_path, as sqlite reports it: per table its name,  *)
(* the rows of PRAGMA table_info (cid, name, type, notnull, dflt, pk), the *)
(* rows of PRAGMA foreign_key_list and the table's rows.                   *)
(***************************************************************************)
CustomersTable ==
    [name |-> "customers",
     table_info |-> << <<0, "customer_id", "INTEGER", 0, None, 1>>,
                       <<1, "first_name", "TEXT", 1, None, 0>> >>,
     foreign_key_list |-> << >>,
     rows |-> << <<1, "Ann">>, <<2, "Bob">>, <<3, "Cy">>, <<4, "Di">> >>]

OrdersTable ==
    [name |-> "orders",
     table_info |-> << <<0, "order_id", "INTEGER", 0, None, 1>>,
                       <<1, "customer_id", "INTEGER", 0, None, 0>> >>,
     foreign_key_list |-> << <<0, 0, "customers", "customer_id", "customer_id",
                               "NO ACTION", "NO ACTION", "NONE">> >>,
     rows |-> << >>]

Databases == { <<CustomersTable>>, <<CustomersTable, OrdersTable>> }

\* bool(x) of an sqlite integer flag
bool(x) == x # 0

\* the rows of SELECT * FROM table LIMIT n
limit(rows, n) == SubSeq(rows, 1, IF Len(rows) < n THEN Len(rows) ELSE n)

get_database_schema(db) ==
    [t \in 1..Len(db) |->
        [table_name |-> db[t].name,
         columns |-> [i \in 1..Len(db[t].table_info) |->
                        [name |-> db[t].table_info[i][2],
                         type |-> db[t].table_info[i][3],
                         not_null |-> bool(db[t].table_info[i][4]),
                         primary_key |-> bool(db[t].table_info[i][6])]],
         foreign_keys |-> db[t].foreign_key_list,
         sample_data |-> limit(db[t].rows, 3)]]

(***************************************************************************)
(* generate_sql_query                                                      *)
(***************************************************************************)
FenceSql == <<"<bq>","<bq>","<bq>","s","q","l">>

Fence == <<"<bq>","<bq>","<bq>">>

MsgErrorGenerating == <<"E","r","r","o","r"," ","g","e","n","e","r","a","t","i","n","g"," ","S","Q","L",":"," ">>

MsgIndexError == <<"l","i","s","t"," ","i","n","d","e","x"," ","o","u","t"," ","o","f"," ","r","a","n","g","e">>

MsgAttributeError == <<"'","N","o","n","e","T","y","p","e","'"," ","o","b","j","e","c","t"," ","h","a","s"," ","n","o"," ","a","t","t","r","i","b","u","t","e"," ","'","s","t","r","i","p","'">>

\* what self.client.chat.completions.create can do: raise, or return a
\* response without choices, with a null content, or with a text
BackendErrors == { <<"C","o","n","n","e","c","t","i","o","n"," ","e","r","r","o","r",".">>, <<>> }

RawResponses ==
    { <<"S","E","L","E","C","T"," ","1">>,
      <<"<bq>","<bq>","<bq>","s","q","l","\n","S","E","L","E","C","T"," ","1","\n","<bq>","<bq>","<bq>">>,
      <<"s","e","l","e","c","t"," ","1",";"," ","p","r","a","g","m","a"," ","x">>,
      <<"s","e","l","e","c","t"," ","*"," ","f","r","o","m"," ","u","p","d","a","t","e","s">>,
      <<"D","R","O","P"," ","T","A","B","L","E"," ","t">>,
      <<"E","r","r","o","r",":"," ","u","n","c","l","e","a","r">>,
      <<>> }

BackendBehaviours ==
    {[kind |-> "raise", msg |-> m] : m \in BackendErrors}
    \cup {[kind |-> "no_choices"], [kind |-> "null_content"]}
    \cup {[kind |-> "content", content |-> r] : r \in RawResponses}

\* the except branch of generate_sql_query is taken
backend_raises(b) == b.kind # "content"

\* str(e) of the exception caught in generate_sql_query
backend_exception_text(b) ==
    IF b.kind = "raise" THEN b.msg
    ELSE IF b.kind = "no_choices" THEN MsgIndexError
    ELSE MsgAttributeError

\* the clean-up of the response text
clean_response(content) ==
    LET s0 == strip(content)
        s1 == IF startswith(s0, FenceSql) THEN slice_from(s0, 6) ELSE s0
        s2 == IF endswith(s1, Fence) THEN slice_drop_last(s1, 3) ELSE s1
    IN  strip(s2)

generate_sql_query(b) ==
    IF backend_raises(b)
    THEN MsgErrorGenerating \o backend_exception_text(b)
    ELSE clean_response(b.content)

\* generate_sql_query on each backend behaviour, computed once
generated == [b \in BackendBehaviours |-> generate_sql_query(b)]

\* validate_sql_query on each text generate_sql_query can return,
\* computed once
validated ==
    [s \in {generated[b] : b \in BackendBehaviours} |-> validate_sql_query(s)]

(***************************************************************************)
(* execute_query: the connection objects.  Every call of execute_query     *)
(* runs sqlite3.connect at most once, so connection objects are named by   *)
(* the call that created them: conns[k] tells whether call k's connection  *)
(* exists, whether it is open, and which calls ran a query on it.          *)
(***************************************************************************)
NoConnection == [exists |-> FALSE, open |-> FALSE, users |-> {}]

\* sqlite3.connect(self.db_path) hands out a connection another call has open
connect_shared(cs, c) ==
    IF \E k \in DOMAIN cs : cs[k].open
    THEN <<cs, CHOOSE k \in DOMAIN cs : cs[k].open>>
    ELSE <<[cs EXCEPT ![c] = [exists |-> TRUE, open |-> TRUE, users |-> {}]], c>>

\* sqlite3.connect(self.db_path): a new connection object, and its name
connect(cs, c) ==
    <<[cs EXCEPT ![c] = [exists |-> TRUE, open |-> TRUE, users |-> {}]], c>>

\* pd.read_sql_query(sql_query, conn) runs on connection k for call c
use(cs, k, c) == [cs EXCEPT ![k].users = @ \cup {c}]

\* conn.close()
close(cs, k) == [cs EXCEPT ![k].open = FALSE]

\* str(e) of what sqlite3.connect can raise
ConnectErrors == { <<"u","n","a","b","l","e"," ","t","o"," ","o","p","e","n"," ","d","a","t","a","b","a","s","e"," ","f","i","l","e">> }

\* str(e) of what pd.read_sql_query can raise (a MemoryError has no text)
ExecErrors == { <<"n","o"," ","s","u","c","h"," ","c","o","l","u","m","n",":"," ","x">>, <<>> }

\* the result table with n rows
Rows(n) == [i \in 1..n |-> <<i>>]

(***************************************************************************)
(* process_natural_language_query: the tests it makes and the dicts it     *)
(* returns.                                                                *)
(***************************************************************************)
\* no dict was returned
NoOutcome == << >>

MsgError == <<"E","r","r","o","r">>

MsgExecution == <<"S","Q","L"," ","e","x","e","c","u","t","i","o","n"," ","e","r","r","o","r",":"," ">>

Questions == { <<"a","l","l"," ","c","u","s","t","o","m","e","r","s">>, <<"t","o","p"," ","o","r","d","e","r","s">> }

\* the test written with the wrong case, which no generated text meets
generation_failed_wrong_case(sql) == startswith(sql, <<"E","R","R","O","R">>)

\* `if sql_query.startswith("Error")`
generation_failed(sql) == startswith(sql, MsgError)

\* `if error`
execution_failed(err) == truthy(err)

generation_failure(uq, sql) ==
    [success |-> FALSE, error |-> sql, user_query |-> uq]

\* the rejection dict with the message and the text swapped
validation_failure_swapped(uq, sql, validation_message) ==
    [success |-> FALSE, error |-> sql, user_query |-> uq,
     sql_query |-> validation_message]

validation_failure(uq, sql, validation_message) ==
    [success |-> FALSE, error |-> validation_message, user_query |-> uq,
     sql_query |-> sql]

execution_failure(uq, sql, err) ==
    [success |-> FALSE, error |-> MsgExecution \o err.s, user_query |-> uq,
     sql_query |-> sql]

\* the success dict with an error key as well
success_with_error(uq, sql, df) ==
    [success |-> TRUE, user_query |-> uq, sql_query |-> sql,
     results |-> df, row_count |-> Len(df.rows), error |-> None]

success(uq, sql, df) ==
    [success |-> TRUE, user_query |-> uq, sql_query |-> sql,
     results |-> df, row_count |-> Len(df.rows)]

(***************************************************************************)
(* The state after NLToSQLEngine.__init__: no call has started.            *)
(***************************************************************************)
NotCalled == << >>

\* no response was handed to a direct call of generate_sql_query
NoResponse ==
    [lead |-> << >>, open |-> << >>, body |-> << >>, close |-> << >>,
     trail |-> << >>]

InitCalls ==
    /\ pc = [c \in Calls |-> "idle"]
    /\ user_query = [c \in Calls |-> << >>]
    /\ sql_query = [c \in Calls |-> << >>]
    /\ results_df = [c \in Calls |-> None]
    /\ error = [c \in Calls |-> None]
    /\ conn = [c \in Calls |-> 0]
    /\ conns = [k \in Calls |-> NoConnection]
    /\ outcome = [c \in Calls |-> NoOutcome]
    /\ backend_failed = [c \in Calls |-> FALSE]
    /\ log = [c \in Calls |-> << >>]

\* __init__: self.schema_info = self.get_database_schema()
InitEngine == \E db \in Databases : schema_info = get_database_schema(db)

Init ==
    /\ InitEngine
    /\ InitCalls
    /\ v_sql = << >>
    /\ v_ret = NotCalled
    /\ g_response = NoResponse
    /\ g_ret = None

(***************************************************************************)
(* The steps of one call c of process_natural_language_query.              *)
(***************************************************************************)
\* a caller enters process_natural_language_query(user_query)
Call(c) ==
    /\ pc[c] = "idle"
    /\ \E q \in Questions : user_query' = [user_query EXCEPT ![c] = q]
    /\ pc' = [pc EXCEPT ![c] = "generate"]
    /\ UNCHANGED <<schema_info, sql_query, results_df, error, conn, conns,
                   outcome, backend_failed, log, v_sql, v_ret, g_response, g_ret>>

\* step 1: generate_sql_query, then the test for a generation error
GenerateSql(c) ==
    /\ pc[c] = "generate"
    /\ \E b \in BackendBehaviours :
         LET sql == generated[b]
         IN  /\ sql_query' = [sql_query EXCEPT ![c] = sql]
             /\ backend_failed' = [backend_failed EXCEPT ![c] = backend_raises(b)]
             /\ log' = [log EXCEPT ![c] = Append(@,
                          [stage |-> "generate",
                           arg |-> user_query[c],
                           ret |-> sql])]
             /\ IF generation_failed(sql)
                THEN /\ outcome' = [outcome EXCEPT ![c] =
                                      generation_failure(user_query[c], sql)]
                     /\ pc' = [pc EXCEPT ![c] = "returned"]
                ELSE /\ outcome' = outcome
                     /\ pc' = [pc EXCEPT ![c] = "validate"]
    /\ UNCHANGED <<schema_info, user_query, results_df, error, conn, conns,
                   v_sql, v_ret, g_response, g_ret>>

\* step 2: validate_sql_query, then the test of is_valid
ValidateSql(c) ==
    /\ pc[c] = "validate"
    /\ LET r == validated[sql_query[c]]
       IN  /\ log' = [log EXCEPT ![c] = Append(@,
                        [stage |-> "validate", arg |-> sql_query[c], ret |-> r])]
           /\ IF ~r[1]
              THEN /\ outcome' = [outcome EXCEPT ![c] =
                                    validation_failure(user_query[c], sql_query[c], r[2])]
                   /\ pc' = [pc EXCEPT ![c] = "returned"]
              ELSE /\ outcome' = outcome
                   /\ pc' = [pc EXCEPT ![c] = "execute"]
    /\ UNCHANGED <<schema_info, user_query, sql_query, results_df, error, conn,
                   conns, backend_failed, v_sql, v_ret, g_response, g_ret>>

\* the rest of the call with an empty table taken for a failure
finish_empty_is_failure(uq, sql, df, err) ==
    IF execution_failed(err)
    THEN <<"returned", execution_failure(uq, sql, err)>>
    ELSE IF df.tag = "None"
    THEN <<"raised", NoOutcome>>
    ELSE IF Len(df.rows) = 0
    THEN <<"returned", execution_failure(uq, sql, Str(<<"n","o"," ","r","o","w","s">>))>>
    ELSE <<"returned", success(uq, sql, df)>>

\* the rest of process_natural_language_query once execute_query has
\* returned (df, err): the test of error, then step 4, the success dict,
\* whose len(results_df) raises a TypeError when results_df is None.
\* Gives the position reached and the dict returned.
finish(uq, sql, df, err) ==
    IF execution_failed(err)
    THEN <<"returned", execution_failure(uq, sql, err)>>
    ELSE IF df.tag = "None"
    THEN <<"raised", NoOutcome>>
    ELSE <<"returned", success(uq, sql, df)>>

\* step 3: execute_query is entered and calls sqlite3.connect, which
\* returns a connection, or raises: then (None, str(e)) is returned and
\* the call finishes
ExecConnect(c) ==
    /\ pc[c] = "execute"
    /\ log' = [log EXCEPT ![c] = Append(@,
                 [stage |-> "execute", arg |-> sql_query[c]])]
    /\ \/ LET r == connect(conns, c)
          IN  /\ conns' = r[1]
              /\ conn' = [conn EXCEPT ![c] = r[2]]
              /\ pc' = [pc EXCEPT ![c] = "read"]
              /\ UNCHANGED <<results_df, error, outcome>>
       \/ \E m \in ConnectErrors :
            LET f == finish(user_query[c], sql_query[c], None, Str(m))
            IN  /\ results_df' = [results_df EXCEPT ![c] = None]
                /\ error' = [error EXCEPT ![c] = Str(m)]
                /\ pc' = [pc EXCEPT ![c] = f[1]]
                /\ outcome' = [outcome EXCEPT ![c] = f[2]]
                /\ UNCHANGED <<conn, conns>>
    /\ UNCHANGED <<schema_info, user_query, sql_query, backend_failed,
                   v_sql, v_ret, g_response, g_ret>>

\* execute_query: pd.read_sql_query returns a table, the connection is
\* closed and (df, None) returned; or it raises and (None, str(e)) is
\* returned, the connection left as it is.  Then the call finishes.
ExecRead(c) ==
    /\ pc[c] = "read"
    /\ \E r \in {<<DataFrame(Rows(n)), None>> : n \in 0..MaxRows}
                \cup {<<None, Str(m)>> : m \in ExecErrors} :
         LET f == finish(user_query[c], sql_query[c], r[1], r[2])
         IN  /\ conns' = IF r[1].tag = "DataFrame"
                         THEN close(use(conns, conn[c], c), conn[c])
                         ELSE use(conns, conn[c], c)
             /\ results_df' = [results_df EXCEPT ![c] = r[1]]
             /\ error' = [error EXCEPT ![c] = r[2]]
             /\ pc' = [pc EXCEPT ![c] = f[1]]
             /\ outcome' = [outcome EXCEPT ![c] = f[2]]
    /\ conn' = [conn EXCEPT ![c] = 0]
    /\ UNCHANGED <<schema_info, user_query, sql_query, backend_failed,
                   log, v_sql, v_ret, g_response, g_ret>>

\* the interpreter finalizes a connection object no frame refers to any
\* more, which closes it
Finalize(k) ==
    /\ conns[k].open
    /\ \A c \in Calls : conn[c] # k
    /\ conns' = close(conns, k)
    /\ UNCHANGED <<schema_info, pc, user_query, sql_query, results_df, error,
                   conn, outcome, backend_failed, log, v_sql, v_ret, g_response, g_ret>>

Next ==
    \/ \E c \in Calls :
         \/ Call(c)
         \/ GenerateSql(c)
         \/ ValidateSql(c)
         \/ ExecConnect(c)
         \/ ExecRead(c)
    \/ \E k \in Calls : Finalize(k)

Spec == Init /\ [][Next]_vars

(***************************************************************************)
(* validate_sql_query called on its own, on texts put together from a      *)
(* lead, a head, up to MaxTail fragments and a trail.                      *)
(***************************************************************************)
Leads == { << >>, <<" ">>, <<"\n","\t">> }

Heads == { <<"s","e","l","e","c","t">>, <<"S","E","L","E","C","T">>, <<"S","e","L","e","C","t">>, <<"s","e","l">>, <<"e","c","t">>,
           <<"w","i","t","h"," ","x"," ","a","s">>, <<"d","r","o","p">>, << >> }

Tails == { <<" ","1">>, <<" ","*"," ","f","r","o","m"," ","U","p","d","a","t","e","s">>, <<";"," ","D","R","O","P"," ","t","a","b","l","e"," ","t">>, <<" ","i","n","s","e","r","t">>,
           <<" ","d","e","l","e","t">>, <<"e"," ","x">>, <<";"," ","p","r","a","g","m","a"," ","x">>, <<" ","a","l","t","e","r">> }

Trails == { << >>, <<" ","\n">> }

\* the concatenations of at most n fragments
RECURSIVE TailSeqs(_)
TailSeqs(n) ==
    IF n = 0 THEN { << >> }
    ELSE LET shorter == TailSeqs(n - 1)
         IN  shorter \cup {s \o t : s \in shorter, t \in Tails}

ValidatorInputs ==
    {l \o h \o m \o t : l \in Leads, h \in Heads, m \in TailSeqs(MaxTail),
                        t \in Trails}

InitV ==
    /\ InitEngine
    /\ InitCalls
    /\ v_sql \in ValidatorInputs
    /\ v_ret = NotCalled
    /\ g_response = NoResponse
    /\ g_ret = None

\* a caller runs validate_sql_query(v_sql)
ValidateDirect ==
    /\ v_ret = NotCalled
    /\ v_ret' = validate_sql_query(v_sql)
    /\ UNCHANGED <<schema_info, pc, user_query, sql_query, results_df, error,
                   conn, conns, outcome, backend_failed, log, v_sql,
                   g_response, g_ret>>

NextV == ValidateDirect

SpecV == InitV /\ [][NextV]_vars

(***************************************************************************)
(* Properties.  Stage(c, st) are the positions in call c's log where stage *)
(* st was invoked; Finished(c) says the call has returned or raised.       *)
(***************************************************************************)
Stage(c, st) == {i \in 1..Len(log[c]) : log[c][i].stage = st}

Finished(c) == pc[c] \in {"returned", "raised"}

StageRank(st) ==
    IF st = "generate" THEN 1 ELSE IF st = "validate" THEN 2 ELSE 3

\* C1: in every run the stages are invoked in the order generate,
\* validate, execute; after a backend failure neither validate_sql_query
\* nor execute_query is invoked; after a rejection execute_query is not
\* invoked; execute_query is invoked only with the very text that
\* validate_sql_query admitted before.
C1_ShortCircuit ==
    \A c \in Calls :
        /\ \A i, j \in 1..Len(log[c]) :
             i < j => StageRank(log[c][i].stage) < StageRank(log[c][j].stage)
        /\ backend_failed[c] => Stage(c, "validate") \cup Stage(c, "execute") = {}
        /\ \A i \in Stage(c, "validate") :
             ~log[c][i].ret[1] => Stage(c, "execute") = {}
        /\ \A j \in Stage(c, "execute") :
             \E i \in Stage(c, "validate") :
                 i < j /\ log[c][i].ret[1] /\ log[c][i].arg = log[c][j].arg

\* one call ended at a backend failure, another reached execute_query
C1_Witness ==
    \E c, d \in Calls :
        /\ backend_failed[c] /\ pc[c] = "returned" /\ Len(log[c]) = 1
        /\ ~backend_failed[d] /\ Stage(d, "execute") # {}

\* the denylist as the specification gives it, in its order
C2_Denylist == << <<"d","r","o","p">>, <<"d","e","l","e","t","e">>, <<"i","n","s","e","r","t">>, <<"u","p","d","a","t","e">>, <<"a","l","t","e","r">> >>

\* C2: validate_sql_query(s) admits s exactly when the lower-cased, trimmed
\* s starts with "select" and holds none of drop, delete, insert, update,
\* alter anywhere; it rejects with "Only SELECT queries are allowed" when
\* the prefix test fails, and otherwise with the reason naming the first
\* keyword, in the order of the list, that s holds.
C2_Validator ==
    v_ret # NotCalled =>
        LET norm == strip(lower(v_sql))
            isSelect == startswith(norm, <<"s","e","l","e","c","t">>)
            hits == {i \in 1..Len(C2_Denylist) : str_in(C2_Denylist[i], norm)}
        IN  /\ v_ret[1] <=> (isSelect /\ hits = {})
            /\ ~isSelect => v_ret[2] = <<"O","n","l","y"," ","S","E","L","E","C","T"," ","q","u","e","r","i","e","s"," ","a","r","e"," ","a","l","l","o","w","e","d">>
            /\ isSelect /\ hits # {} =>
                 v_ret[2] = <<"Q","u","e","r","y"," ","c","o","n","t","a","i","n","s"," ","f","o","r","b","i","d","d","e","n"," ","k","e","y","w","o","r","d",":"," ">>
                              \o C2_Denylist[SetMin(hits)]

\* a SELECT holding "insert" before "drop" was rejected for "drop"
C2_Witness ==
    /\ v_ret = <<FALSE, <<"Q","u","e","r","y"," ","c","o","n","t","a","i","n","s"," ","f","o","r","b","i","d","d","e","n"," ","k","e","y","w","o","r","d",":"," ","d","r","o","p">>>>
    /\ startswith(strip(lower(v_sql)), <<"s","e","l","e","c","t"," ","i","n","s","e","r","t",";"," ","d","r","o","p">>)

\* the texts generate_sql_query can return
GeneratedTexts == {generated[b] : b \in BackendBehaviours}

\* no statement follows a semicolon
NoChainedStatement(s) ==
    \A i \in 1..Len(s) :
        s[i] = ";" => \A j \in (i + 1)..Len(s) : s[j] \in Whitespace

\* a single read-only SELECT, as far as the text shows: it starts with
\* SELECT, no statement is chained to it and it holds no other command
SingleReadOnlySelect(s) ==
    LET norm == strip(lower(s))
    IN  /\ startswith(norm, <<"s","e","l","e","c","t">>)
        /\ NoChainedStatement(norm)
        /\ \A w \in { <<"d","r","o","p">>, <<"d","e","l","e","t","e">>, <<"i","n","s","e","r","t">>, <<"u","p","d","a","t","e">>, <<"a","l","t","e","r">>,
                      <<"p","r","a","g","m","a">>, <<"a","t","t","a","c","h">>, <<"c","r","e","a","t","e">>, <<"r","e","p","l","a","c","e">> } :
             ~str_in(w, norm)

\* starts with "select" and holds none of the five denylisted keywords
SelectWithoutDenylisted(s) ==
    LET norm == strip(lower(s))
    IN  /\ startswith(norm, <<"s","e","l","e","c","t">>)
        /\ \A w \in { <<"d","r","o","p">>, <<"d","e","l","e","t","e">>, <<"i","n","s","e","r","t">>, <<"u","p","d","a","t","e">>, <<"a","l","t","e","r">> } :
             ~str_in(w, norm)

C3_SingleSelectTexts == {s \in GeneratedTexts : SingleReadOnlySelect(s)}

C3_DenylistFreeTexts == {s \in GeneratedTexts : SelectWithoutDenylisted(s)}

\* C3 as stated: every text passed to execute_query is a single read-only
\* SELECT statement, with no statement chained after a semicolon and no
\* non-SELECT command such as PRAGMA, ATTACH, CREATE or REPLACE in it.
C3_AsStated ==
    \A c \in Calls : \A j \in Stage(c, "execute") :
        log[c][j].arg \in C3_SingleSelectTexts

\* C3 as amended: every text passed to execute_query starts, lower-cased
\* and trimmed, with "select" and holds none of drop, delete, insert,
\* update, alter; a chained statement or another command may be in it.
C3_Amended ==
    \A c \in Calls : \A j \in Stage(c, "execute") :
        log[c][j].arg \in C3_DenylistFreeTexts

\* a text with a PRAGMA chained after a semicolon reached execute_query
C3_Witness ==
    \E c \in Calls : \E j \in Stage(c, "execute") :
        log[c][j].arg = <<"s","e","l","e","c","t"," ","1",";"," ","p","r","a","g","m","a"," ","x">>

\* C4 as stated: no call raises; whenever the backend failed or executing
\* the SQL raised an exception (whatever its message, the empty one
\* included), the call returns a dict with success = False and an error.
C4_AsStated ==
    \A c \in Calls :
        /\ pc[c] # "raised"
        /\ (Finished(c) /\ (backend_failed[c] \/ error[c].tag = "str")) =>
             /\ pc[c] = "returned"
             /\ ~outcome[c].success
             /\ "error" \in DOMAIN outcome[c]

\* C5 as stated: once execute_query has returned, with a table or with an
\* error, the connection it opened for that call is closed.
C5_AsStated ==
    \A c \in Calls :
        (conns[c].exists /\ conn[c] = 0) => ~conns[c].open

\* C6 as stated: the generation-failure dict (no sql_query key) is returned
\* exactly when the backend call failed; whenever the backend returned
\* text, that text goes on to validate_sql_query and every failure dict
\* carries it as sql_query.
C6_AsStated ==
    \A c \in Calls :
        /\ (pc[c] = "returned" /\ ~outcome[c].success) =>
             ("sql_query" \notin DOMAIN outcome[c] <=> backend_failed[c])
        /\ (pc[c] \notin {"idle", "generate", "validate"} /\ ~backend_failed[c]) =>
             \E i \in Stage(c, "validate") : log[c][i].arg = log[c][1].ret

\* C7: every dict returned is one of two kinds: with success = True it has
\* exactly the keys success, user_query, sql_query, results, row_count
\* (no error); with success = False it has user_query and a non-empty
\* error and neither results nor row_count.
C7_OutcomeShape ==
    \A c \in Calls :
        pc[c] = "returned" =>
            LET o == outcome[c]
            IN  /\ "success" \in DOMAIN o
                /\ o.success \in BOOLEAN
                /\ o.success =>
                     DOMAIN o = {"success", "user_query", "sql_query",
                                 "results", "row_count"}
                /\ ~o.success =>
                     /\ {"user_query", "error"} \subseteq DOMAIN o
                     /\ DOMAIN o \subseteq {"success", "user_query", "error",
                                            "sql_query"}
                     /\ Len(o.error) > 0

\* one call returned a success dict and another a failure dict
C7_Witness ==
    \E c, d \in Calls :
        /\ pc[c] = "returned" /\ outcome[c].success
        /\ pc[d] = "returned" /\ ~outcome[d].success

\* C8: the user_query of every dict returned is the question passed in;
\* a failure dict returned after validate_sql_query was invoked (a
\* rejection or an execution error) has sql_query, equal to the one text
\* generate_sql_query returned for that call.
C8_FailureCarriesSql ==
    \A c \in Calls :
        pc[c] = "returned" =>
            /\ outcome[c].user_query = user_query[c]
            /\ outcome[c].user_query = log[c][1].arg
            /\ (~outcome[c].success /\ Stage(c, "validate") # {}) =>
                 /\ "sql_query" \in DOMAIN outcome[c]
                 /\ outcome[c].sql_query = log[c][1].ret

\* one call was rejected by the validator, another failed in execution,
\* and the two were asked different questions
C8_Witness ==
    \E c, d \in Calls :
        /\ pc[c] = "returned" /\ ~outcome[c].success
        /\ Stage(c, "validate") # {} /\ Stage(c, "execute") = {}
        /\ pc[d] = "returned" /\ ~outcome[d].success
        /\ Stage(d, "execute") # {}
        /\ user_query[c] # user_query[d]

\* C9: when execute_query returned a table, the call returns a success
\* dict whose row_count is the number of rows of that table, zero rows
\* included.
C9_RowCount ==
    \A c \in Calls :
        (Finished(c) /\ results_df[c].tag = "DataFrame") =>
            /\ pc[c] = "returned"
            /\ outcome[c].success
            /\ outcome[c].row_count = Len(results_df[c].rows)
            /\ outcome[c].results = results_df[c]

\* a query returned no rows and the call returned success with row_count 0
C9_Witness ==
    \E c \in Calls :
        /\ pc[c] = "returned"
        /\ results_df[c] = DataFrame(<< >>)
        /\ outcome[c].success
        /\ outcome[c].row_count = 0

\* C10: under every interleaving a connection is used by the call that
\* opened it only, a call holds no connection but its own, and no step
\* changes schema_info.
C10_OwnConnection ==
    /\ [](\A k \in Calls :
            /\ conns[k].users \subseteq {k}
            /\ conn[k] \in {0, k})
    /\ [][schema_info' = schema_info]_vars

\* two calls are inside execute_query at once, each on an open connection
C10_Witness ==
    \E c, d \in Calls :
        /\ c # d
        /\ pc[c] = "read" /\ pc[d] = "read"
        /\ conn[c] # 0 /\ conn[d] # 0
        /\ conns[conn[c]].open /\ conns[conn[d]].open

(***************************************************************************)
(* generate_sql_query called on its own, the backend returning a text put  *)
(* together from leading whitespace, an opening fence with or without a    *)
(* language tag (or none), the SQL on its own lines, a closing fence (or   *)
(* none) and trailing whitespace.                                          *)
(***************************************************************************)
FenceLeads == { << >>, <<"\n">> }

FenceOpens == { << >>, <<"<bq>","<bq>","<bq>","s","q","l">>, <<"<bq>","<bq>","<bq>","S","Q","L">>, <<"<bq>","<bq>","<bq>">>, <<"<bq>","<bq>","<bq>","s","q","l","i","t","e">> }

FenceBodies == { <<"\n","S","E","L","E","C","T"," ","1","\n">>, <<"\n","S","E","L","E","C","T"," ","1">>,
                 <<"\n","s","e","l","e","c","t"," ","a","\n","f","r","o","m"," ","t",";","\n">> }

FenceCloses == { << >>, <<"<bq>","<bq>","<bq>">> }

FenceTrails == { << >>, <<" ","\n">> }

FencedResponses ==
    [lead : FenceLeads, open : FenceOpens, body : FenceBodies,
     close : FenceCloses, trail : FenceTrails]

\* response.choices[0].message.content of such a response
FencedText(r) == r.lead \o r.open \o r.body \o r.close \o r.trail

InitG ==
    /\ InitEngine
    /\ InitCalls
    /\ v_sql = << >>
    /\ v_ret = NotCalled
    /\ g_response \in FencedResponses
    /\ g_ret = None

\* a caller runs generate_sql_query and the backend returns g_response
GenerateDirect ==
    /\ g_ret = None
    /\ g_ret' = Str(generate_sql_query(
                      [kind |-> "content", content |-> FencedText(g_response)]))
    /\ UNCHANGED <<schema_info, pc, user_query, sql_query, results_df, error,
                   conn, conns, outcome, backend_failed, log, v_sql, v_ret,
                   g_response>>

NextG == GenerateDirect

SpecG == InitG /\ [][NextG]_vars

\* C11 as stated: for a response that wraps the SQL in a code block, with
\* the tag "sql", another or differently-cased tag or no tag, with or
\* without a closing fence, generate_sql_query returns the trimmed SQL
\* inside the block, with no fence marker and no surrounding whitespace;
\* a response without fences is returned trimmed and otherwise unchanged.
C11_AsStated ==
    g_ret # None =>
        IF g_response.open # << >>
        THEN /\ ~str_in(<<"<bq>","<bq>","<bq>">>, g_ret.s)
             /\ strip(g_ret.s) = g_ret.s
             /\ g_ret.s = strip(g_response.body)
        ELSE g_response.close = << >> =>
                 g_ret.s = strip(FencedText(g_response))

\* what of C11 the code does: with the opening fence "```sql" exactly, or
\* with no fence at all, the trimmed SQL is returned
C11_SqlTagOnly ==
    (g_ret # None /\ g_response.open \in { <<"<bq>","<bq>","<bq>","s","q","l">>, << >> }
                  /\ (g_response.open = << >> => g_response.close = << >>)) =>
        /\ g_ret.s = strip(g_response.body)
        /\ ~str_in(<<"<bq>","<bq>","<bq>">>, g_ret.s)

\* the steps call c can take once it has started
StepOf(c) ==
    GenerateSql(c) \/ ValidateSql(c) \/ ExecConnect(c) \/ ExecRead(c)

\* what of C12 the code does: generate_sql_query, and with it the backend,
\* is called once per run, validate_sql_query and execute_query at most
\* once, in this order, and a run that has not finished can take a step
C12_NoRetry ==
    \A c \in Calls :
        /\ Cardinality(Stage(c, "generate")) =
               (IF pc[c] \in {"idle", "generate"} THEN 0 ELSE 1)
        /\ Cardinality(Stage(c, "validate")) <= 1
        /\ Cardinality(Stage(c, "execute")) <= 1
        /\ \A i, j \in 1..Len(log[c]) :
             i < j => StageRank(log[c][i].stage) < StageRank(log[c][j].stage)
        /\ (pc[c] # "idle" /\ ~Finished(c)) => ENABLED StepOf(c)

\* C12 as stated: no retries, and every run finishes by returning one
\* outcome record: the backend is called exactly once, validate_sql_query
\* and execute_query at most once each, no stage is entered again after a
\* later one has started, a run that has not finished can take a step,
\* and a run that has finished has returned a dict.
C12_AsStated ==
    /\ C12_NoRetry
    /\ \A c \in Calls :
         Finished(c) => (pc[c] = "returned" /\ DOMAIN outcome[c] # {})

====
